---- MODULE Spec2Model ----
(***************************************************************************)
(* Model of OperatorAllocator (operator_allocator.py): the quota split of  *)
(* the operator pool over the styles, the greedy assignment per operation, *)
(* the gap-filling pass per style, the final redistribution sweep and the  *)
(* achieved-efficiency evaluation.                                         *)
(*                                                                         *)
(* One behaviour is: an allocator object is constructed, allocate_operators*)
(* is called on fixed arguments and runs step by step, its plan is scored  *)
(* by calculate_achieved_efficiency, and then the same arguments are       *)
(* submitted again, either to the same object or to a new one.             *)
(*                                                                         *)
(* Input domain.  The transaction table is one of the tables of Tables;    *)
(* every requested style has at least one row in it (app.py takes the      *)
(* style list from the table's own style column), the style list holds no  *)
(* style twice and the pool holds no operator twice.  The statistics table *)
(* has one row per (style, operation, operator) key, as the groupby of     *)
(* efficiency_calculator.py produces it, and no two of its rows have the   *)
(* same Normalized_Weightage, so that no sort is decided by the order of   *)
(* the rows alone.  All quantities are small integers; the quotients the   *)
(* code takes in floating point are taken exactly here (the two agree for  *)
(* pools of up to 11 operators and the times used).                        *)
(***************************************************************************)
EXTENDS Integers, Sequences, FiniteSets, TLC

\* ------------------------------------------------------------ bounds
MaxPool == 3        \* largest pool with an arbitrary statistics table
MaxRecords == 2     \* most rows of an arbitrary statistics table
WidePool == 8       \* size of the staff, and largest pool, with a uniform statistics table
MaxCalls == 2       \* calls of allocate_operators in one behaviour
ScenarioPool == 3   \* pool of the two-operation scenario with a full statistics table

\* ------------------------------------------------------------ program constants
MaxHeadcount == 7   \* min(7, ...) in allocate_operators
MinHeadcount == 1   \* max(1, ...) in allocate_operators

\* ------------------------------------------------------------ generic helpers
Min(a, b) == IF a <= b THEN a ELSE b

Max(a, b) == IF a >= b THEN a ELSE b

\* ceil(a / b) for a >= 0, b > 0
CeilDiv(a, b) == (a + b - 1) \div b

SeqToSet(s) == {s[j] : j \in 1..Len(s)}

Head0(s, n) == SubSeq(s, 1, Min(n, Len(s)))

\* variant: nothing is taken off the pool
DropNone(s, n) == s

Drop(s, n) == SubSeq(s, Min(n, Len(s)) + 1, Len(s))

RECURSIVE Gcd(_, _)
Gcd(a, b) == IF b = 0 THEN a ELSE Gcd(b, a % b)

\* ------------------------------------------------------------ labels
StyleNames == {"A", "B"}

StyleRank(s) == IF s = "A" THEN 1 ELSE 2

OperationLabels ==
  {"HEM", "QUALITY CHECK", "QUALITY CHECKING", "SEW", "TRIM", "quality check"}

\* position of a label in the sorted order of the labels (upper case sorts
\* before lower case), the order in which groupby lists its groups
OpRank(pc) ==
  CASE pc = "HEM" -> 1
    [] pc = "QUALITY CHECK" -> 2
    [] pc = "QUALITY CHECKING" -> 3
    [] pc = "SEW" -> 4
    [] pc = "TRIM" -> 5
    [] pc = "quality check" -> 6

\* the labels the operation filter of allocate_operators compares with
QualityLabels == {"QUALITY CHECK", "QUALITY CHECKING"}

\* the filter on ODPI_PC_Description: a comparison of the label as stored
IsExcluded(pc) == pc \in QualityLabels

\* ------------------------------------------------------------ transaction tables
Row(st, pc, t) == [st |-> st, pc |-> pc, t |-> t]

Table1 ==
  << Row("A", "HEM", 8), Row("A", "SEW", 5), Row("B", "HEM", 5),
     Row("A", "HEM", 12) >>

Table2 ==
  << Row("A", "TRIM", 5), Row("A", "HEM", 10), Row("A", "SEW", 10),
     Row("B", "SEW", 10) >>

Table3 ==
  << Row("A", "HEM", 10), Row("A", "QUALITY CHECK", 20),
     Row("A", "quality check", 5), Row("B", "QUALITY CHECKING", 5) >>

Tables == {Table1, Table2, Table3}

StyleLists == { <<>>, <<"A">>, <<"B">>, <<"A", "B">>, <<"B", "A">> }

\* ------------------------------------------------------------ statistics rows
\* Operation_Frequency of a row
FrequencySheet == <<5, 5, 6, 4, 5, 5, 6, 4, 5, 6>>

\* Normalized_Weightage of a row, in thousandths
WeightSheet == <<300, 400, 100, 200, 500, 600, 900, 700, 800, 950>>

\* Average_Efficiency of a row
EfficiencySheet == <<60, 75, 90, 55, 80, 65, 70, 85, 95, 50>>

StatRow(st, pc, em) ==
  [st |-> st, pc |-> pc, em |-> em,
   freq |-> FrequencySheet[em],
   weight |-> WeightSheet[em] + 10 * (StyleRank(st) - 1) + (OpRank(pc) - 1),
   eff |-> EfficiencySheet[em] + StyleRank(st) + 2 * OpRank(pc)]

\* the (style, operation) pairs of a transaction table
PairsOf(table) ==
  {<<table[j].st, table[j].pc>> : j \in 1..Len(table)}

\* order of the rows of the statistics table: sorted by its group keys
RowBefore(r1, r2) ==
  \/ StyleRank(r1.st) < StyleRank(r2.st)
  \/ r1.st = r2.st /\ OpRank(r1.pc) < OpRank(r2.pc)
  \/ r1.st = r2.st /\ r1.pc = r2.pc /\ r1.em < r2.em

\* ------------------------------------------------------------ quota split
\* df[df.style.isin(styles)].groupby(style)[operation].nunique()
OperationCount(table, st) ==
  Cardinality({table[j].pc : j \in {n \in 1..Len(table) : table[n].st = st}})

RECURSIVE SumCounts(_, _)
SumCounts(table, S) ==
  IF S = {} THEN 0
  ELSE LET st == CHOOSE x \in S : TRUE
       IN OperationCount(table, st) + SumCounts(table, S \ {st})

\* style_operation_counts['Total_Operations'].sum()
TotalOperations(table, styleList) == SumCounts(table, SeqToSet(styleList))

\* variant: the quota rounded down
OperatorAllocationFloor(table, styleList, poolSize, st) ==
  (OperationCount(table, st) * poolSize) \div TotalOperations(table, styleList)

\* np.ceil((Total_Operations / total_operations) * len(operators))
OperatorAllocation(table, styleList, poolSize, st) ==
  CeilDiv(OperationCount(table, st) * poolSize, TotalOperations(table, styleList))

\* ------------------------------------------------------------ operation priorities
\* the operations of a style that pass the filter
KeptOperations(table, st) ==
  {table[j].pc : j \in {n \in 1..Len(table) :
                          table[n].st = st /\ ~IsExcluded(table[n].pc)}}

RowsOf(table, st, pc) == {j \in 1..Len(table) : table[j].st = st /\ table[j].pc = pc}

RECURSIVE SumTimes(_, _)
SumTimes(table, J) ==
  IF J = {} THEN 0
  ELSE LET j == CHOOSE x \in J : TRUE
       IN table[j].t + SumTimes(table, J \ {j})

RECURSIVE ProductOfCounts(_, _, _)
ProductOfCounts(table, st, S) ==
  IF S = {} THEN 1
  ELSE LET pc == CHOOSE x \in S : TRUE
       IN Cardinality(RowsOf(table, st, pc)) * ProductOfCounts(table, st, S \ {pc})

\* groupby(operation)[Standard_Time].mean(), times a factor common to the
\* operations of the style that makes every mean of the style an integer
MeanTime(table, st, pc) ==
  LET scale == ProductOfCounts(table, st, KeptOperations(table, st))
      rows == RowsOf(table, st, pc)
  IN SumTimes(table, rows) * (scale \div Cardinality(rows))

\* variant: the shortest operation first
TimeBeforeAscending(table, st, p, q) ==
  \/ MeanTime(table, st, p) < MeanTime(table, st, q)
  \/ MeanTime(table, st, p) = MeanTime(table, st, q) /\ OpRank(p) < OpRank(q)

\* sort_values('ODPI_OC_Standard_Time', ascending=False) on the groups in
\* label order
TimeBefore(table, st, p, q) ==
  \/ MeanTime(table, st, p) > MeanTime(table, st, q)
  \/ MeanTime(table, st, p) = MeanTime(table, st, q) /\ OpRank(p) < OpRank(q)

RECURSIVE SortOperations(_, _, _)
SortOperations(table, st, S) ==
  IF S = {} THEN <<>>
  ELSE LET first == CHOOSE p \in S : \A q \in S \ {p} : TimeBefore(table, st, p, q)
       IN <<first>> \o SortOperations(table, st, S \ {first})

\* operation_times: the operations of the style in processing order
OperationTimes(table, st) == SortOperations(table, st, KeptOperations(table, st))

RECURSIVE SumMeans(_, _, _)
SumMeans(table, st, S) ==
  IF S = {} THEN 0
  ELSE LET pc == CHOOSE x \in S : TRUE
       IN MeanTime(table, st, pc) + SumMeans(table, st, S \ {pc})

\* variant: the headcount without its upper limit
NumOperatorsUnclamped(table, st, pc, sliceSize) ==
  Max(MinHeadcount,
      CeilDiv(MeanTime(table, st, pc) * sliceSize,
              SumMeans(table, st, KeptOperations(table, st))))

\* max(1, min(7, ceil(proportion * len(available_operators))))
NumOperators(table, st, pc, sliceSize) ==
  Max(MinHeadcount,
      Min(MaxHeadcount,
          CeilDiv(MeanTime(table, st, pc) * sliceSize,
                  SumMeans(table, st, KeptOperations(table, st)))))

\* ------------------------------------------------------------ ranking
\* variant: the two sort keys in the other order
RankBeforeWeightFirst(r1, r2) ==
  \/ r1.weight > r2.weight
  \/ r1.weight = r2.weight /\ r1.freq > r2.freq
  \/ r1.weight = r2.weight /\ r1.freq = r2.freq /\ RowBefore(r1, r2)

\* sort_values(['Operation_Frequency', 'Normalized_Weightage'], ascending=False)
RankBefore(r1, r2) ==
  \/ r1.freq > r2.freq
  \/ r1.freq = r2.freq /\ r1.weight > r2.weight
  \/ r1.freq = r2.freq /\ r1.weight = r2.weight /\ RowBefore(r1, r2)

RECURSIVE SortRanked(_)
SortRanked(R) ==
  IF R = {} THEN <<>>
  ELSE LET first == CHOOSE r \in R : \A q \in R \ {r} : RankBefore(r, q)
       IN <<first>> \o SortRanked(R \ {first})

\* variant: the lowest weightage first
WeightBeforeAscending(r1, r2) ==
  \/ r1.weight < r2.weight
  \/ r1.weight = r2.weight /\ RowBefore(r1, r2)

\* sort_values('Normalized_Weightage', ascending=False)
WeightBefore(r1, r2) ==
  \/ r1.weight > r2.weight
  \/ r1.weight = r2.weight /\ RowBefore(r1, r2)

RECURSIVE SortByWeight(_)
SortByWeight(R) ==
  IF R = {} THEN <<>>
  ELSE LET first == CHOOSE r \in R : \A q \in R \ {r} : WeightBefore(r, q)
       IN <<first>> \o SortByWeight(R \ {first})

\* variant: operators already assigned stay eligible
EligibleOperatorsIgnoringAssigned(rows, operation, style, slice, assigned) ==
  {r \in rows : /\ r.pc = operation
                /\ r.st = style
                /\ r.em \in SeqToSet(slice)}

\* variant: operators outside the slice of the style are eligible
EligibleOperatorsAnyPool(rows, operation, style, slice, assigned) ==
  {r \in rows : /\ r.pc = operation
                /\ r.st = style
                /\ r.em \notin assigned}

\* the rows _assign_to_operation keeps
EligibleOperators(rows, operation, style, slice, assigned) ==
  {r \in rows : /\ r.pc = operation
                /\ r.st = style
                /\ r.em \in SeqToSet(slice)
                /\ r.em \notin assigned}

\* variant: every eligible operator is taken, whatever the headcount
AssignToOperationWhole(rows, operation, style, slice, num, assigned) ==
  LET ranked == SortRanked(EligibleOperators(rows, operation, style, slice, assigned))
  IN [j \in 1..Len(ranked) |-> ranked[j].em]

\* eligible_operators['ODPI_EM_Key'].head(num_operators).tolist()
AssignToOperation(rows, operation, style, slice, num, assigned) ==
  LET ranked == SortRanked(EligibleOperators(rows, operation, style, slice, assigned))
      top == Head0(ranked, num)
  IN [j \in 1..Len(top) |-> top[j].em]

\* variant: an operator of the slice without any row is a candidate of the
\* lowest weightage
GetUnskilledOperatorsAnyone(rows, operation, style, slice, assigned) ==
  SortByWeight({r \in rows : /\ r.em \in SeqToSet(slice)
                             /\ r.em \notin assigned
                             /\ ~(r.pc = operation /\ r.st = style)}
               \cup {[st |-> "A", pc |-> "HEM", em |-> em,
                       freq |-> 0, weight |-> 0, eff |-> 0] :
                        em \in {x \in SeqToSet(slice) \ assigned :
                                  \A r \in rows : r.em # x}})

\* variant: only rows of the style itself count
GetUnskilledOperatorsSameStyle(rows, operation, style, slice, assigned) ==
  SortByWeight({r \in rows : /\ r.em \in SeqToSet(slice)
                             /\ r.em \notin assigned
                             /\ r.st = style
                             /\ r.pc # operation})

\* _get_unskilled_operators: the rows left, best weightage first
GetUnskilledOperators(rows, operation, style, slice, assigned) ==
  SortByWeight({r \in rows : /\ r.em \in SeqToSet(slice)
                             /\ r.em \notin assigned
                             /\ ~(r.pc = operation /\ r.st = style)})

\* ------------------------------------------------------------ the plan
\* allocation[style] is a dict in insertion order: a sequence of entries
Entry(pc, staff) == [pc |-> pc, staff |-> staff]

\* allocation[style][operation] = staff, for the operation of entry e
SetStaff(alloc, st, e, staff) ==
  [alloc EXCEPT ![st] = [@ EXCEPT ![e] = Entry(@.pc, staff)]]

\* the entries of a style that can give an operator away: the first one is
\* the donor
FirstHolding(entries, atLeast) ==
  LET holding == {e \in 1..Len(entries) : Len(entries[e].staff) >= atLeast}
  IN IF holding = {} THEN 0
     ELSE CHOOSE e \in holding : \A f \in holding : e <= f

\* variant: the steal spares an operation holding one operator
StealDonorProtected(entries) == FirstHolding(entries, 2)

\* the donor of the steal in _fill_empty_operations: if assigned_operators
StealDonor(entries) == FirstHolding(entries, 1)

\* variant: an operation holding one operator is a donor too
RedistributeDonorAny(entries) == FirstHolding(entries, 1)

\* variant: a donor must hold more than two operators
RedistributeDonorStrict(entries) == FirstHolding(entries, 3)

\* the donor of _redistribute_operators: if len(assigned_operators) > 1
RedistributeDonor(entries) == FirstHolding(entries, 2)

\* reallocated = donor.pop(0); allocation[style][operation] = [reallocated]
MoveFirst(alloc, st, donor, e) ==
  LET moved == Head(alloc[st][donor].staff)
      popped == [alloc EXCEPT ![st] = [@ EXCEPT ![donor] =
                                          Entry(@.pc, Tail(@.staff))]]
  IN SetStaff(popped, st, e, <<moved>>)

\* the operators listed anywhere in the plan
RECURSIVE Flatten(_)
Flatten(entries) ==
  IF entries = <<>> THEN <<>>
  ELSE Head(entries).staff \o Flatten(Tail(entries))

\* ------------------------------------------------------------ achieved efficiency
\* the value total / count, as a fraction in lowest terms; 0 is <<0, 1>>
Ratio(total, count) ==
  LET g == Gcd(total, count) IN <<total \div g, count \div g>>

\* variant: an operator without a row is counted too
RECURSIVE StaffTotalsCountingAll(_, _, _, _, _)
StaffTotalsCountingAll(rows, st, pc, staff, acc) ==
  IF staff = <<>> THEN acc
  ELSE LET found == {r \in rows : r.em = Head(staff) /\ r.st = st /\ r.pc = pc}
           next == IF found # {}
                   THEN <<acc[1] + (CHOOSE r \in found : TRUE).eff, acc[2] + 1>>
                   ELSE <<acc[1], acc[2] + 1>>
       IN StaffTotalsCountingAll(rows, st, pc, Tail(staff), next)

\* one pass of the inner loops of calculate_achieved_efficiency: the pair
\* <<total_efficiency, total_operations>> after the operators of staff
RECURSIVE StaffTotals(_, _, _, _, _)
StaffTotals(rows, st, pc, staff, acc) ==
  IF staff = <<>> THEN acc
  ELSE LET found == {r \in rows : r.em = Head(staff) /\ r.st = st /\ r.pc = pc}
           next == IF found # {}
                   THEN <<acc[1] + (CHOOSE r \in found : TRUE).eff, acc[2] + 1>>
                   ELSE acc
       IN StaffTotals(rows, st, pc, Tail(staff), next)

RECURSIVE StyleTotals(_, _, _, _)
StyleTotals(rows, st, entries, acc) ==
  IF entries = <<>> THEN acc
  ELSE StyleTotals(rows, st, Tail(entries),
                   StaffTotals(rows, st, Head(entries).pc, Head(entries).staff, acc))

\* total_efficiency / total_operations if total_operations > 0 else 0
AchievedOf(rows, st, entries) ==
  LET totals == StyleTotals(rows, st, entries, <<0, 0>>)
  IN IF totals[2] > 0 THEN Ratio(totals[1], totals[2]) ELSE <<0, 1>>

CalculateAchievedEfficiency(alloc, rows) ==
  [st \in DOMAIN alloc |-> AchievedOf(rows, st, alloc[st])]

\* ------------------------------------------------------------ state
VARIABLES
  df,                  \* argument df: the transaction table
  categorized_df,      \* argument categorized_df: the statistics rows
  pool,                \* argument operators, as passed by the caller
  styles,              \* argument styles
  assigned_operators,  \* self.assigned_operators
  allocation,          \* local allocation of allocate_operators
  operators,           \* local operators: the pool not yet given to a style
  available_operators, \* local available_operators: the slice of the style
  pc,                  \* where the run is
  i,                   \* style loop: index into styles
  k,                   \* operation loop: index into the operations of the style
  achieved_efficiency, \* result of calculate_achieved_efficiency
  calls,               \* calls of allocate_operators made so far
  fresh,               \* the current call is the first one on its object
  slices,              \* history: the slice each style of this call was given
  before_sweep,        \* history: the plan of this call when the sweep began
  entry_assigned,      \* history: self.assigned_operators when this call began
  first_allocation,    \* history: the plan returned by the first call
  first_efficiency     \* history: the efficiencies of the first plan

inputs == <<df, categorized_df, pool, styles>>

history == <<slices, before_sweep, entry_assigned, first_allocation,
            first_efficiency>>

vars == <<df, categorized_df, pool, styles, assigned_operators, allocation,
          operators, available_operators, pc, i, k, achieved_efficiency,
          calls, fresh, slices, before_sweep, entry_assigned,
          first_allocation, first_efficiency>>

\* the style and the operation the loops are at
style == styles[i]

Operations == OperationTimes(df, style)

operation == Operations[k]

\* ------------------------------------------------------------ initial states
CandidateKeys(table, n) == PairsOf(table) \X (1..n)

\* an arbitrary statistics table of at most MaxRecords rows
SmallInputs ==
  /\ df \in Tables
  /\ styles \in StyleLists
  /\ \E n \in 0..MaxPool :
       /\ pool = [j \in 1..n |-> j]
       /\ \E keys \in SUBSET CandidateKeys(df, n) :
            /\ Cardinality(keys) <= MaxRecords
            /\ categorized_df = {StatRow(key[1][1], key[1][2], key[2]) : key \in keys}

\* a staff of WidePool operators who have all worked on the same one
\* operation; the pool is any number of them
UniformInputs ==
  /\ df \in Tables
  /\ styles \in StyleLists
  /\ \E n \in 0..WidePool : pool = [j \in 1..n |-> j]
  /\ \E pair \in PairsOf(df) :
       categorized_df = {StatRow(pair[1], pair[2], em) : em \in 1..WidePool}

\* style A of Table1 (HEM at a mean of 10 s, SEW at 5 s) with a pool of
\* ScenarioPool operators, of whom any may have worked on either operation
ScenarioInputs ==
  /\ df = Table1
  /\ styles \in StyleLists
  /\ pool = [j \in 1..ScenarioPool |-> j]
  /\ \E keys \in SUBSET ({"HEM", "SEW"} \X (1..ScenarioPool)) :
       /\ Cardinality(keys) > MaxRecords
       /\ categorized_df = {StatRow("A", key[1], key[2]) : key \in keys}

\* OperatorAllocator.__init__: self.assigned_operators = set()
NewAllocator == {}

\* variant: the set is shared by all objects of the class
KeptFromPrevious(previous) == previous

\* the set of a new object, whatever the set of the object before it held
AfterConstruct(previous) == NewAllocator

Init ==
  /\ SmallInputs \/ UniformInputs \/ ScenarioInputs
  /\ assigned_operators = NewAllocator
  /\ allocation = <<>>
  /\ operators = <<>>
  /\ available_operators = <<>>
  /\ pc = "idle"
  /\ i = 1
  /\ k = 1
  /\ achieved_efficiency = <<>>
  /\ calls = 0
  /\ fresh = TRUE
  /\ slices = <<>>
  /\ before_sweep = <<>>
  /\ entry_assigned = {}
  /\ first_allocation = <<>>
  /\ first_efficiency = <<>>

\* ------------------------------------------------------------ control
\* after the last operation of style i has been through the gap filler:
\* the next style, or the sweep of _ensure_no_empty_operations
\* variant: the sweep visits no operation
SweepOmitted(alloc, styleList, s) == Len(styleList) + 1

RECURSIVE SweepFrom(_, _, _)
SweepFrom(alloc, styleList, s) ==
  IF s > Len(styleList) \/ Len(alloc[styleList[s]]) > 0 THEN s
  ELSE SweepFrom(alloc, styleList, s + 1)

AfterStyle(alloc) ==
  IF i < Len(styles)
  THEN /\ pc' = "style"
       /\ i' = i + 1
       /\ k' = 1
       /\ UNCHANGED before_sweep
  ELSE /\ pc' = "sweep"
       /\ i' = SweepFrom(alloc, styles, 1)
       /\ k' = 1
       /\ before_sweep' = alloc

AfterFill(alloc) ==
  IF k < Len(Operations)
  THEN /\ pc' = "fill"
       /\ i' = i
       /\ k' = k + 1
       /\ UNCHANGED before_sweep
  ELSE AfterStyle(alloc)

AfterSweep(alloc) ==
  /\ pc' = "sweep"
  /\ IF k < Len(alloc[style])
     THEN /\ i' = i
          /\ k' = k + 1
     ELSE /\ i' = SweepFrom(alloc, styles, i + 1)
          /\ k' = 1

\* ------------------------------------------------------------ allocate_operators
\* entry of allocate_operators: allocation = {}
Enter ==
  /\ calls < MaxCalls
  /\ calls' = calls + 1
  /\ allocation' = <<>>
  /\ operators' = pool
  /\ available_operators' = <<>>
  /\ achieved_efficiency' = <<>>
  /\ slices' = <<>>
  /\ before_sweep' = <<>>
  /\ entry_assigned' = assigned_operators
  /\ k' = 1
  /\ i' = 1
  /\ pc' = IF Len(styles) = 0 THEN "sweep" ELSE "style"
  /\ UNCHANGED <<inputs, assigned_operators, first_allocation, first_efficiency>>

\* the first call on a new object
Call ==
  /\ pc = "idle"
  /\ Enter
  /\ UNCHANGED fresh

\* a further call on the object of the call before
CallAgain ==
  /\ pc = "done"
  /\ Enter
  /\ fresh' = FALSE

\* a new object for the next call
Construct ==
  /\ pc = "done"
  /\ calls < MaxCalls
  /\ assigned_operators' = AfterConstruct(assigned_operators)
  /\ fresh' = TRUE
  /\ pc' = "idle"
  /\ UNCHANGED <<inputs, allocation, operators, available_operators, i, k,
                 achieved_efficiency, calls, history>>

\* top of the style loop: the style's slice of the pool
BeginStyle ==
  /\ pc = "style"
  /\ LET quota == OperatorAllocation(df, styles, Len(pool), style)
         alloc == [s \in DOMAIN allocation \cup {style} |->
                     IF s = style THEN <<>> ELSE allocation[s]]
     IN /\ available_operators' = Head0(operators, quota)
        /\ operators' = Drop(operators, quota)
        /\ allocation' = alloc
        /\ slices' = [s \in DOMAIN slices \cup {style} |->
                        IF s = style THEN Head0(operators, quota) ELSE slices[s]]
        /\ IF Len(Operations) > 0
           THEN /\ pc' = "greedy"
                /\ k' = 1
                /\ i' = i
                /\ UNCHANGED before_sweep
           ELSE AfterStyle(alloc)
  /\ UNCHANGED <<inputs, assigned_operators, achieved_efficiency, calls, fresh,
                 entry_assigned, first_allocation, first_efficiency>>

\* one pass of the operation loop: _assign_to_operation and the store
Greedy ==
  /\ pc = "greedy"
  /\ LET num_operators == NumOperators(df, style, operation, Len(available_operators))
         assigned == AssignToOperation(categorized_df, operation, style,
                                       available_operators, num_operators,
                                       assigned_operators)
     IN /\ assigned_operators' = assigned_operators \cup SeqToSet(assigned)
        /\ allocation' = [allocation EXCEPT
                            ![style] = Append(@, Entry(operation, assigned))]
  /\ IF k < Len(Operations)
     THEN /\ k' = k + 1
          /\ pc' = "greedy"
     ELSE /\ k' = 1
          /\ pc' = "fill"
  /\ UNCHANGED <<inputs, operators, available_operators, i, achieved_efficiency,
                 calls, fresh, history>>

\* _fill_empty_operations, one operation per step
Unskilled ==
  GetUnskilledOperators(categorized_df, operation, style, available_operators,
                        assigned_operators)

\* the operation already has operators
FillSkip ==
  /\ pc = "fill"
  /\ allocation[style][k].staff # <<>>
  /\ AfterFill(allocation)
  /\ UNCHANGED <<inputs, assigned_operators, allocation, operators,
                 available_operators, achieved_efficiency, calls, fresh, slices,
                 entry_assigned, first_allocation, first_efficiency>>

\* variant: the operator of the unskilled fallback is not recorded
FillUnskilledUntracked ==
  /\ pc = "fill"
  /\ allocation[style][k].staff = <<>>
  /\ Unskilled # <<>>
  /\ LET alloc == SetStaff(allocation, style, k, <<Unskilled[1].em>>)
     IN /\ allocation' = alloc
        /\ AfterFill(alloc)
  /\ UNCHANGED <<inputs, assigned_operators, operators, available_operators,
                 achieved_efficiency, calls, fresh, slices,
                 entry_assigned, first_allocation, first_efficiency>>

\* an operator of the slice with no history here
FillUnskilled ==
  /\ pc = "fill"
  /\ allocation[style][k].staff = <<>>
  /\ Unskilled # <<>>
  /\ LET alloc == SetStaff(allocation, style, k, <<Unskilled[1].em>>)
     IN /\ allocation' = alloc
        /\ AfterFill(alloc)
  /\ assigned_operators' = assigned_operators \cup {Unskilled[1].em}
  /\ UNCHANGED <<inputs, operators, available_operators, achieved_efficiency,
                 calls, fresh, slices,
                 entry_assigned, first_allocation, first_efficiency>>

\* the first operator of the first operation of the style that has one
FillSteal ==
  /\ pc = "fill"
  /\ allocation[style][k].staff = <<>>
  /\ Unskilled = <<>>
  /\ LET donor == StealDonor(allocation[style])
     IN /\ donor # 0
        /\ LET alloc == MoveFirst(allocation, style, donor, k)
           IN /\ allocation' = alloc
              /\ AfterFill(alloc)
        /\ assigned_operators' =
             assigned_operators \cup {Head(allocation[style][donor].staff)}
  /\ UNCHANGED <<inputs, operators, available_operators, achieved_efficiency,
                 calls, fresh, slices,
                 entry_assigned, first_allocation, first_efficiency>>

\* nobody to give: the operation stays empty
FillNone ==
  /\ pc = "fill"
  /\ allocation[style][k].staff = <<>>
  /\ Unskilled = <<>>
  /\ StealDonor(allocation[style]) = 0
  /\ AfterFill(allocation)
  /\ UNCHANGED <<inputs, assigned_operators, allocation, operators,
                 available_operators, achieved_efficiency, calls, fresh, slices,
                 entry_assigned, first_allocation, first_efficiency>>

\* _ensure_no_empty_operations, one operation per step
SweepSkip ==
  /\ pc = "sweep"
  /\ i <= Len(styles)
  /\ allocation[style][k].staff # <<>>
  /\ AfterSweep(allocation)
  /\ UNCHANGED <<inputs, assigned_operators, allocation, operators,
                 available_operators, achieved_efficiency, calls, fresh, history>>

\* _redistribute_operators with a donor
Redistribute ==
  /\ pc = "sweep"
  /\ i <= Len(styles)
  /\ allocation[style][k].staff = <<>>
  /\ LET donor == RedistributeDonor(allocation[style])
     IN /\ donor # 0
        /\ LET alloc == MoveFirst(allocation, style, donor, k)
           IN /\ allocation' = alloc
              /\ AfterSweep(alloc)
        /\ assigned_operators' =
             assigned_operators \cup {Head(allocation[style][donor].staff)}
  /\ UNCHANGED <<inputs, operators, available_operators, achieved_efficiency,
                 calls, fresh, history>>

\* _redistribute_operators without a donor
SweepNone ==
  /\ pc = "sweep"
  /\ i <= Len(styles)
  /\ allocation[style][k].staff = <<>>
  /\ RedistributeDonor(allocation[style]) = 0
  /\ AfterSweep(allocation)
  /\ UNCHANGED <<inputs, assigned_operators, allocation, operators,
                 available_operators, achieved_efficiency, calls, fresh, history>>

\* return allocation
Return ==
  /\ pc = "sweep"
  /\ i > Len(styles)
  /\ pc' = "returned"
  /\ first_allocation' = IF calls = 1 THEN allocation ELSE first_allocation
  /\ UNCHANGED <<inputs, assigned_operators, allocation, operators,
                 available_operators, i, k, achieved_efficiency, calls, fresh,
                 slices, before_sweep, entry_assigned, first_efficiency>>

\* calculate_achieved_efficiency(allocation, categorized_df)
Evaluate ==
  /\ pc = "returned"
  /\ pc' = "done"
  /\ achieved_efficiency' = CalculateAchievedEfficiency(allocation, categorized_df)
  /\ first_efficiency' =
       IF calls = 1 THEN CalculateAchievedEfficiency(allocation, categorized_df)
       ELSE first_efficiency
  /\ UNCHANGED <<inputs, assigned_operators, allocation, operators,
                 available_operators, i, k, calls, fresh, slices, before_sweep,
                 entry_assigned, first_allocation>>

Next ==
  \/ Call
  \/ CallAgain
  \/ Construct
  \/ BeginStyle
  \/ Greedy
  \/ FillSkip
  \/ FillUnskilled
  \/ FillSteal
  \/ FillNone
  \/ SweepSkip
  \/ Redistribute
  \/ SweepNone
  \/ Return
  \/ Evaluate

Spec == Init /\ [][Next]_vars

\* ------------------------------------------------------------ properties
\* the places of the plan: <<style, entry, index in the entry's list>>
Places(alloc) ==
  UNION {UNION {{<<st, e, j>> : j \in 1..Len(alloc[st][e].staff)} :
                  e \in 1..Len(alloc[st])} :
           st \in DOMAIN alloc}

At(alloc, p) == alloc[p[1]][p[2]].staff[p[3]]

\* the operators listed under a style
Staffed(alloc, st) == {At(alloc, p) : p \in {q \in Places(alloc) : q[1] = st}}

HeadcountOf(alloc, st) == Cardinality({q \in Places(alloc) : q[1] = st})

Returned == pc \in {"returned", "done"}

\* C1: on a new allocator, at every step of allocate_operators and in the
\* returned plan, no operator stands at two places of the plan (two lists,
\* or twice in one list)
C1_GlobalUniqueness ==
  fresh => \A p, q \in Places(allocation) :
             At(allocation, p) = At(allocation, q) => p = q

\* a returned plan with operators under both styles that the sweep has
\* changed by a redistribution
C1_Witness ==
  /\ fresh
  /\ pc = "returned"
  /\ allocation # before_sweep
  /\ \A st \in StyleNames : st \in DOMAIN allocation /\ Staffed(allocation, st) # {}

\* the operators of a style's slice a pass of this call can reach: those
\* with a statistics row that were not assigned when the call began
Reachable(st) ==
  {em \in SeqToSet(slices[st]) \ entry_assigned :
     \E r \in categorized_df : r.em = em}

\* C2 as stated: in the returned plan every operation of a style with at
\* least one reachable operator holds 1 to 7 operators, and an operation is
\* empty only if no operation of its style holds more than one
C2_AsStated ==
  pc = "returned" =>
    \A st \in DOMAIN allocation : \A e \in 1..Len(allocation[st]) :
      /\ Reachable(st) # {} =>
           /\ Len(allocation[st][e].staff) >= 1
           /\ Len(allocation[st][e].staff) <= 7
      /\ allocation[st][e].staff = <<>> =>
           \A f \in 1..Len(allocation[st]) : Len(allocation[st][f].staff) <= 1

\* C2 amended: in the returned plan every operation holds at most 7
\* operators, holds at least 1 when its style has at least as many reachable
\* operators as operations, and is empty only if no operation of its style
\* holds more than one
C2_HeadcountBounds ==
  pc = "returned" =>
    \A st \in DOMAIN allocation : \A e \in 1..Len(allocation[st]) :
      /\ Len(allocation[st][e].staff) <= 7
      /\ Cardinality(Reachable(st)) >= Len(allocation[st]) =>
           Len(allocation[st][e].staff) >= 1
      /\ allocation[st][e].staff = <<>> =>
           \A f \in 1..Len(allocation[st]) : Len(allocation[st][f].staff) <= 1

\* a returned plan with an operation at the limit of 7, in a style with more
\* reachable operators than that
C2_Witness ==
  /\ pc = "returned"
  /\ \E st \in DOMAIN allocation :
       /\ Cardinality(Reachable(st)) > 7
       /\ \E e \in 1..Len(allocation[st]) : Len(allocation[st][e].staff) = 7

C4_NoStateBetweenCalls ==
  (pc = "returned" /\ calls > 1) => allocation = first_allocation

\* the smallest q with q * total >= count * poolSize: ceil(count / total * P)
QuotaOf(st) ==
  LET count == Cardinality({df[j].pc : j \in {n \in 1..Len(df) : df[n].st = st}})
      total == TotalOperations(df, styles)
  IN CHOOSE q \in 0..Len(pool) :
       /\ q * total >= count * Len(pool)
       /\ \A r \in 0..Len(pool) : r * total >= count * Len(pool) => q <= r

\* the operators handed out before the style at position s of the list
RECURSIVE TakenBefore(_)
TakenBefore(s) ==
  IF s = 1 THEN 0
  ELSE TakenBefore(s - 1)
         + Min(QuotaOf(styles[s - 1]), Len(pool) - TakenBefore(s - 1))

\* C5: the style at position s of the list is given the next
\* min(quota, remaining) operators of the pool, the slices of two styles are
\* disjoint, and with A (2 operations), B (1 operation) and 5 operators the
\* order [A, B] gives A 4 and B 1 while the order [B, A] gives another split
C5_QuotaSplit ==
  /\ \A s \in 1..Len(styles) :
       styles[s] \in DOMAIN slices =>
         slices[styles[s]] =
           SubSeq(pool, TakenBefore(s) + 1,
                  TakenBefore(s)
                    + Min(QuotaOf(styles[s]), Len(pool) - TakenBefore(s)))
  /\ \A st1, st2 \in DOMAIN slices :
       st1 # st2 => SeqToSet(slices[st1]) \cap SeqToSet(slices[st2]) = {}
  /\ (df = Table1 /\ Len(pool) = 5 /\ DOMAIN slices = {"A", "B"}) =>
       IF styles = <<"A", "B">>
       THEN Len(slices["A"]) = 4 /\ Len(slices["B"]) = 1
       ELSE ~(Len(slices["A"]) = 4 /\ Len(slices["B"]) = 1)

\* the example of C5: B is left with 1 operator, less than its quota of 2
C5_Witness ==
  /\ pc = "returned"
  /\ df = Table1
  /\ styles = <<"A", "B">>
  /\ Len(pool) = 5
  /\ QuotaOf("B") = 2
  /\ slices = [st \in {"A", "B"} |-> IF st = "A" THEN <<1, 2, 3, 4>> ELSE <<5>>]

\* a label in upper case, for the labels of OperationLabels
UpperCase(label) == IF label = "quality check" THEN "QUALITY CHECK" ELSE label

\* C6 as stated: an operation whose label is a quality-check label in any
\* letter case is no key of the plan and has no part in the operations whose
\* standard times make up the proportions
C6_QualityCheckExcluded ==
  \A st \in DOMAIN allocation :
    /\ \A e \in 1..Len(allocation[st]) :
         UpperCase(allocation[st][e].pc) \notin {"QUALITY CHECK", "QUALITY CHECKING"}
    /\ \A label \in KeptOperations(df, st) :
         UpperCase(label) \notin {"QUALITY CHECK", "QUALITY CHECKING"}

\* C7: with an empty style list or an empty pool no step of the call assigns
\* an operator, the returned plan lists none (and has no style when the
\* style list is empty), and every style with no operator is scored 0
C7_EmptySelection ==
  /\ (styles = <<>> \/ pool = <<>>) =>
       /\ Places(allocation) = {}
       /\ assigned_operators = {}
  /\ (styles = <<>> /\ Returned) => allocation = <<>>
  /\ pc = "done" =>
       \A st \in DOMAIN allocation :
         Staffed(allocation, st) = {} =>
           /\ st \in DOMAIN achieved_efficiency
           /\ achieved_efficiency[st] = <<0, 1>>

\* an empty pool, a style with an operation and statistics rows for it: the
\* plan names the operation, without operators, and the style is scored 0
C7_Witness ==
  /\ pc = "done"
  /\ pool = <<>>
  /\ \E st \in DOMAIN allocation :
       /\ Len(allocation[st]) > 0
       /\ \E r \in categorized_df : r.st = st /\ r.pc = allocation[st][1].pc
       /\ achieved_efficiency[st] = <<0, 1>>

\* the places of a style whose operator has a row for the style and the
\* operation of the place
Matched(st) ==
  {p \in Places(allocation) :
     /\ p[1] = st
     /\ \E r \in categorized_df :
          r.st = st /\ r.pc = allocation[st][p[2]].pc /\ r.em = At(allocation, p)}

EfficiencyAt(p) ==
  (CHOOSE r \in categorized_df :
     /\ r.st = p[1]
     /\ r.pc = allocation[p[1]][p[2]].pc
     /\ r.em = At(allocation, p)).eff

RECURSIVE SumEfficiency(_)
SumEfficiency(S) ==
  IF S = {} THEN 0
  ELSE LET p == CHOOSE x \in S : TRUE
       IN EfficiencyAt(p) + SumEfficiency(S \ {p})

\* C8: the result has one entry per style of the plan: the sum of
\* Average_Efficiency over the matched places divided by their number, and
\* 0 when no place is matched
C8_AchievedEfficiency ==
  pc = "done" =>
    /\ DOMAIN achieved_efficiency = DOMAIN allocation
    /\ \A st \in DOMAIN allocation :
         IF Matched(st) = {}
         THEN achieved_efficiency[st] = <<0, 1>>
         ELSE /\ achieved_efficiency[st][2] > 0
              /\ achieved_efficiency[st][1] * Cardinality(Matched(st))
                   = achieved_efficiency[st][2] * SumEfficiency(Matched(st))

\* a scored style with two matched places and a place without a row
C8_Witness ==
  /\ pc = "done"
  /\ \E st \in DOMAIN allocation :
       /\ Cardinality(Matched(st)) >= 2
       /\ HeadcountOf(allocation, st) > Cardinality(Matched(st))

\* C9: when the sweep began with at least as many operators under a style
\* as the style has operations, every operation of the style has an operator
\* in the returned plan
C9_RedistributorGuarantee ==
  pc = "returned" =>
    \A st \in DOMAIN allocation :
      HeadcountOf(before_sweep, st) >= Len(allocation[st]) =>
        \A e \in 1..Len(allocation[st]) : allocation[st][e].staff # <<>>

\* the sweep began with an empty operation and enough operators, and the
\* returned plan has none empty
C9_Witness ==
  /\ pc = "returned"
  /\ \E st \in DOMAIN allocation :
       /\ HeadcountOf(before_sweep, st) >= Len(allocation[st])
       /\ \E e \in 1..Len(before_sweep[st]) : before_sweep[st][e].staff = <<>>
       /\ \A e \in 1..Len(allocation[st]) : allocation[st][e].staff # <<>>

\* r1 ranks at or above r2 by (Operation_Frequency, Normalized_Weightage)
AtOrAbove(r1, r2) ==
  \/ r1.freq > r2.freq
  \/ r1.freq = r2.freq /\ r1.weight >= r2.weight

\* C10: a greedy assignment stores eligible operators only, each ranking at
\* or above every eligible operator left out, in ranked order; of two
\* eligible operators with frequencies (5, 5) and weightages (0.3, 0.4) the
\* second is the one stored when one operator is stored
C10_Ranking ==
  [][pc = "greedy" =>
       LET eligible == {r \in categorized_df :
                          /\ r.st = style
                          /\ r.pc = operation
                          /\ r.em \in SeqToSet(available_operators)
                          /\ r.em \notin assigned_operators}
           stored == allocation'[style][k].staff
           RowOf(em) == CHOOSE r \in eligible : r.em = em
       IN /\ SeqToSet(stored) \subseteq {r.em : r \in eligible}
          /\ \A j \in 1..Len(stored) : \A r \in eligible :
               r.em \notin SeqToSet(stored) => AtOrAbove(RowOf(stored[j]), r)
          /\ \A j \in 1..(Len(stored) - 1) :
               AtOrAbove(RowOf(stored[j]), RowOf(stored[j + 1]))
          /\ ( /\ {<<r.em, r.freq, r.weight>> : r \in eligible}
                    = {<<1, 5, 300>>, <<2, 5, 400>>}
               /\ Len(stored) = 1 ) => stored = <<2>>
    ]_vars

\* the example of C10, right after the assignment: operators 1 and 2 were
\* eligible for HEM, one was to be stored and it is operator 2
C10_Witness ==
  /\ pc = "greedy"
  /\ k = 2
  /\ fresh
  /\ available_operators = <<1, 2>>
  /\ categorized_df = {StatRow("A", "HEM", 1), StatRow("A", "HEM", 2)}
  /\ allocation[style] = <<Entry("HEM", <<2>>)>>

\* the rows of the statistics table for the operation the loops are at,
\* whose operator is in the slice and not in self.assigned_operators
EligibleHere ==
  {r \in categorized_df : /\ r.st = style
                          /\ r.pc = operation
                          /\ r.em \in SeqToSet(available_operators)
                          /\ r.em \notin assigned_operators}

\* clamp(ceil(time / sum of the times * slice size), 1, 7): the least h with
\* h * sum >= time * slice size, held between 1 and 7
HeadcountHere ==
  LET n == Len(available_operators)
      time == MeanTime(df, style, operation)
      sum == SumMeans(df, style, KeptOperations(df, style))
      h == CHOOSE c \in 0..n :
             /\ c * sum >= time * n
             /\ \A d \in 0..n : d * sum >= time * n => c <= d
  IN IF h < 1 THEN 1 ELSE IF h > 7 THEN 7 ELSE h

\* operator em has a row for operation label and ranks above every other
\* operator of the slice with a row for it
RanksHighest(em, label) ==
  \E r \in categorized_df :
    /\ r.st = style /\ r.pc = label /\ r.em = em
    /\ em \in SeqToSet(available_operators)
    /\ \A q \in categorized_df :
         (q.st = style /\ q.pc = label /\ q.em # em
            /\ q.em \in SeqToSet(available_operators))
           => (r.freq > q.freq \/ (r.freq = q.freq /\ r.weight > q.weight))

\* C11: a greedy attempt stores, under the operation, exactly
\* min(headcount, number of eligible operators) operators, none of them in
\* the AssignedSet before; with HEM (10 s), SEW (5 s) and slice [1, 2, 3] the
\* headcounts are 2 and 1, and on a new allocator an operator ranking
\* highest for both is stored under HEM and not under SEW
C11_GreedyPass ==
  [][pc = "greedy" =>
       LET stored == allocation'[style][k].staff
       IN /\ allocation'[style][k].pc = operation
          /\ Len(allocation'[style]) = k
          /\ Len(stored) = Min(HeadcountHere, Cardinality(EligibleHere))
          /\ SeqToSet(stored) \cap assigned_operators = {}
          /\ (df = Table1 /\ style = "A" /\ available_operators = <<1, 2, 3>>) =>
               /\ operation = "HEM" => HeadcountHere = 2
               /\ operation = "SEW" => HeadcountHere = 1
               /\ (operation = "SEW" /\ fresh) =>
                    \A em \in 1..3 :
                      (RanksHighest(em, "HEM") /\ RanksHighest(em, "SEW")) =>
                        /\ em \in SeqToSet(allocation'[style][1].staff)
                        /\ em \notin SeqToSet(stored)
    ]_vars

\* the scenario of C11 after both greedy attempts: operator 3 ranks highest
\* for HEM and for SEW, HEM holds its 2 operators with 3 first, SEW its 1
C11_Witness ==
  /\ pc = "fill"
  /\ k = 1
  /\ fresh
  /\ df = Table1
  /\ style = "A"
  /\ available_operators = <<1, 2, 3>>
  /\ RanksHighest(3, "HEM")
  /\ RanksHighest(3, "SEW")
  /\ allocation[style] = <<Entry("HEM", <<3, 2>>), Entry("SEW", <<1>>)>>

\* the mean standard time of operation p of a style is at least that of q
\* (sum(p) / rows(p) >= sum(q) / rows(q), cross-multiplied)
MeanAtLeast(st, p, q) ==
  SumTimes(df, RowsOf(df, st, p)) * Cardinality(RowsOf(df, st, q))
    >= SumTimes(df, RowsOf(df, st, q)) * Cardinality(RowsOf(df, st, p))

\* where the plan stands at each point of the run: the styles entered so
\* far are the first ones of the list, the entries of a style are distinct
\* operations in descending mean standard time, and every style but the one
\* in its greedy pass has all its operations
OrderState ==
  /\ pc = "style" => DOMAIN allocation = {styles[j] : j \in 1..(i - 1)}
  /\ pc \in {"greedy", "fill"} => DOMAIN allocation = {styles[j] : j \in 1..i}
  /\ pc \in {"sweep", "returned", "done"} => DOMAIN allocation = SeqToSet(styles)
  /\ pc # "idle" =>
       \A st \in DOMAIN allocation :
         /\ \A e, f \in 1..Len(allocation[st]) :
              e < f => /\ allocation[st][e].pc # allocation[st][f].pc
                       /\ MeanAtLeast(st, allocation[st][e].pc, allocation[st][f].pc)
         /\ {allocation[st][e].pc : e \in 1..Len(allocation[st])}
              \subseteq KeptOperations(df, st)
         /\ IF pc = "greedy" /\ st = style
            THEN Len(allocation[st]) = k - 1
            ELSE Len(allocation[st]) = Cardinality(KeptOperations(df, st))

\* what a step may do at each point of the run
OrderStep ==
  /\ pc \in {"greedy", "fill"} =>
       \A st \in DOMAIN allocation \ {style} : allocation'[st] = allocation[st]
  /\ pc = "greedy" =>
       /\ pc' \in {"greedy", "fill"}
       /\ i' = i
       /\ pc' = "greedy" => k' = k + 1
       /\ pc' = "fill" => k = Cardinality(KeptOperations(df, style)) /\ k' = 1
  /\ pc = "fill" =>
       /\ pc' \in {"fill", "style", "sweep"}
       /\ pc' = "fill" => i' = i /\ k' = k + 1
       /\ pc' # "fill" => k = Len(allocation[style])
       /\ pc' = "style" => i' = i + 1
       /\ pc' = "sweep" => i = Len(styles)
  /\ pc = "style" =>
       /\ assigned_operators' = assigned_operators
       /\ pc' = "greedy" => i' = i /\ k' = 1
       /\ pc' = "style" => i' = i + 1
       /\ pc' = "sweep" => i = Len(styles)
  /\ pc = "sweep" =>
       /\ pc' \in {"sweep", "returned"}
       /\ pc' = "sweep" => (i' > i \/ (i' = i /\ k' = k + 1))
       /\ pc' = "returned" => allocation' = allocation
  /\ pc = "returned" => allocation' = allocation /\ pc' = "done"

\* C12: styles are taken in list order; the greedy attempts of a style
\* follow descending mean standard time, the order of its plan entries; the
\* gap filler visits each operation of the style once, after the style's
\* last greedy attempt and before the next style is entered; the sweep
\* visits each operation once, after the gap filler of the last style, and
\* the plan is returned as the sweep left it
C12_ProcessingOrder == [][OrderState' /\ OrderStep]_vars

\* a returned plan for [B, A] over Table2: A's entries are HEM, SEW, TRIM
\* and both styles have operators
C12_Witness ==
  /\ pc = "returned"
  /\ df = Table2
  /\ styles = <<"B", "A">>
  /\ [e \in 1..Len(allocation["A"]) |-> allocation["A"][e].pc]
       = <<"HEM", "SEW", "TRIM">>
  /\ Staffed(allocation, "A") # {}
  /\ Staffed(allocation, "B") # {}

\* the rows the unskilled fallback can draw from for the entry the gap
\* filler is at: operator in the slice, not in self.assigned_operators, row
\* not for this style and operation
UnskilledHere ==
  {r \in categorized_df :
     /\ r.em \in SeqToSet(available_operators)
     /\ r.em \notin assigned_operators
     /\ ~(r.st = style /\ r.pc = allocation[style][k].pc)}

\* every list of the plan but the ones of the entries in keep is the same
\* after the step, and so are the keys of the plan
SameExcept(keep) ==
  /\ DOMAIN allocation' = DOMAIN allocation
  /\ \A st \in DOMAIN allocation :
       /\ Len(allocation'[st]) = Len(allocation[st])
       /\ \A e \in 1..Len(allocation[st]) :
            /\ allocation'[st][e].pc = allocation[st][e].pc
            /\ <<st, e>> \notin keep =>
                 allocation'[st][e].staff = allocation[st][e].staff

\* C13: when the gap filler is at an empty operation and some row can be
\* drawn from, the operation gets exactly one operator, the one of the row
\* with the highest Normalized_Weightage, who joins the AssignedSet alone,
\* and no other list of the plan changes
C13_UnskilledFallback ==
  [][(pc = "fill" /\ allocation[style][k].staff = <<>> /\ UnskilledHere # {}) =>
       \E r \in UnskilledHere :
         /\ \A q \in UnskilledHere : q.weight <= r.weight
         /\ allocation'[style][k].staff = <<r.em>>
         /\ assigned_operators' = assigned_operators \cup {r.em}
         /\ SameExcept({<<style, k>>})
    ]_vars

\* style A of Table1 and three operators whose rows are all for style B:
\* HEM was given operator 2 (the highest weightage of the three) and SEW
\* operator 1 (the higher of the two left)
C13_Witness ==
  /\ pc = "sweep"
  /\ fresh
  /\ df = Table1
  /\ styles = <<"A">>
  /\ pool = <<1, 2, 3>>
  /\ \A em \in 1..3 : \E r \in categorized_df : r.em = em /\ r.st = "B"
  /\ allocation["A"] = <<Entry("HEM", <<2>>), Entry("SEW", <<1>>)>>
  /\ assigned_operators = {1, 2}

\* the first entry of the style, in insertion order, whose list holds at
\* least atLeast operators; 0 when there is none
FirstWith(atLeast) ==
  LET holding == {e \in 1..Len(allocation[style]) :
                    Len(allocation[style][e].staff) >= atLeast}
  IN IF holding = {} THEN 0
     ELSE CHOOSE e \in holding : \A f \in holding : e <= f

\* the first operator of entry d has become the only operator of entry k,
\* entry d has lost it, and nothing else in the plan has changed
MovedFrom(d) ==
  /\ allocation'[style][k].staff = <<Head(allocation[style][d].staff)>>
  /\ allocation'[style][d].staff = Tail(allocation[style][d].staff)
  /\ SameExcept({<<style, k>>, <<style, d>>})
  /\ assigned_operators' = assigned_operators

\* C14: when the gap filler is at an empty operation and no row can be
\* drawn from, the first operation of the style holding an operator gives
\* its first operator, who becomes the only operator of the empty one; every
\* other list is unchanged, whatever is left to the donor; without a donor
\* the plan is unchanged
C14_StealFallback ==
  [][(pc = "fill" /\ allocation[style][k].staff = <<>> /\ UnskilledHere = {}) =>
       IF FirstWith(1) = 0
       THEN allocation' = allocation /\ assigned_operators' = assigned_operators
       ELSE MovedFrom(FirstWith(1))
    ]_vars

\* one operator, skilled at HEM only, for HEM and SEW: the gap filler moved
\* the operator from HEM to SEW and HEM is left empty
C14_Witness ==
  /\ pc = "sweep"
  /\ fresh
  /\ df = Table1
  /\ styles = <<"A">>
  /\ pool = <<1>>
  /\ categorized_df = {StatRow("A", "HEM", 1)}
  /\ before_sweep = allocation
  /\ allocation["A"] = <<Entry("HEM", <<>>), Entry("SEW", <<1>>)>>

\* C15: when the sweep is at an empty operation, the first operation of the
\* style holding more than one operator gives its first operator and keeps
\* at least one; without such a donor the plan is unchanged, the operation
\* stays empty and the sweep goes on to the next operation or to the return
C15_RedistributionStep ==
  [][(pc = "sweep" /\ i <= Len(styles)) =>
       /\ k \in 1..Len(allocation[style])
       /\ pc' \in {"sweep", "returned"}
       /\ allocation[style][k].staff = <<>> =>
            IF FirstWith(2) = 0
            THEN /\ allocation' = allocation
                 /\ assigned_operators' = assigned_operators
            ELSE /\ MovedFrom(FirstWith(2))
                 /\ allocation'[style][FirstWith(2)].staff # <<>>
       /\ allocation[style][k].staff # <<>> => allocation' = allocation
    ]_vars

\* a returned plan over Table2: the sweep found HEM empty and SEW holding
\* operators 3 and 2, and moved operator 3 to HEM
C15_Witness ==
  /\ pc = "returned"
  /\ df = Table2
  /\ styles = <<"A">>
  /\ before_sweep["A"] =
       <<Entry("HEM", <<>>), Entry("SEW", <<3, 2>>), Entry("TRIM", <<1>>)>>
  /\ allocation["A"] =
       <<Entry("HEM", <<3>>), Entry("SEW", <<2>>), Entry("TRIM", <<1>>)>>

\* the operators of a style's slice with at least one row in the
\* statistics table
WithRecord(st) ==
  {em \in SeqToSet(slices[st]) : \E r \in categorized_df : r.em = em}

\* C16: in the plan returned by the first call on a new allocator, a style
\* with an empty operation has fewer operators with a row in its slice than
\* operations in the plan, and each of those operators is listed under one
\* of its operations
C16_EmptyOnlyWhenShort ==
  (fresh /\ pc = "returned") =>
    \A st \in DOMAIN allocation :
      (\E e \in 1..Len(allocation[st]) : allocation[st][e].staff = <<>>) =>
        /\ Cardinality(WithRecord(st)) < Len(allocation[st])
        /\ WithRecord(st) \subseteq Staffed(allocation, st)

\* a returned plan of a new allocator with an empty operation in a style
\* of three operations whose slice has two operators with a row, both listed
C16_Witness ==
  /\ fresh
  /\ pc = "returned"
  /\ \E st \in DOMAIN allocation :
       /\ Len(allocation[st]) = 3
       /\ \E e \in 1..3 : allocation[st][e].staff = <<>>
       /\ Cardinality(WithRecord(st)) = 2
       /\ Staffed(allocation, st) = WithRecord(st)

\* C17: in every returned plan a style with an empty operation has no
\* operation holding more than one operator
C17_NoSpareBesideEmpty ==
  Returned =>
    \A st \in DOMAIN allocation :
      \A e, f \in 1..Len(allocation[st]) :
        allocation[st][e].staff = <<>> => Len(allocation[st][f].staff) <= 1

\* a returned plan with an empty operation beside two operations of one
\* operator each, which the sweep visited without finding a donor
C17_Witness ==
  /\ pc = "returned"
  /\ before_sweep = allocation
  /\ \E st \in DOMAIN allocation :
       /\ Len(allocation[st]) = 3
       /\ \E e \in 1..3 :
            /\ allocation[st][e].staff = <<>>
            /\ \A f \in (1..3) \ {e} : Len(allocation[st][f].staff) = 1

\* the operators in the lists of the plan
Listed == {At(allocation, p) : p \in Places(allocation)}

\* allocate_operators has been entered and has not returned more than its
\* plan
InCall == pc \in {"style", "greedy", "fill", "sweep", "returned"}

\* C18: during the first call on a new allocator the AssignedSet is, after
\* every step, exactly the set of operators in the lists of the plan; no
\* step of a call takes an operator out of the AssignedSet, so an operator
\* moved by a steal or a redistribution stays in it
C18_AssignedSetIsPlan ==
  [][/\ (fresh' /\ InCall') => assigned_operators' = Listed'
     /\ (InCall /\ InCall') => assigned_operators \subseteq assigned_operators'
    ]_vars

\* the end of the sweep of a first call that has moved an operator: three
\* operators in the plan, all three in the AssignedSet
C18_Witness ==
  /\ fresh
  /\ pc = "sweep"
  /\ i > Len(styles)
  /\ allocation # before_sweep
  /\ Cardinality(Listed) = 3
  /\ assigned_operators = Listed

\* the slice of the pool the quota split gives to the style at position s
\* of the list
SliceOf(s) ==
  SubSeq(pool, TakenBefore(s) + 1,
         TakenBefore(s) + Min(QuotaOf(styles[s]), Len(pool) - TakenBefore(s)))

\* C19: at every step and in the returned plan the operators listed under
\* a style are operators of the style's own slice, while a style is in its
\* greedy or gap-filling pass the operators on offer are its slice, and no
\* operator of the slice of one style is listed under another style
C19_SliceConfinement ==
  /\ \A s \in 1..Len(styles) :
       styles[s] \in DOMAIN allocation =>
         /\ Staffed(allocation, styles[s]) \subseteq SeqToSet(SliceOf(s))
         /\ \A t \in 1..Len(styles) :
              t # s => Staffed(allocation, styles[s]) \cap SeqToSet(SliceOf(t)) = {}
  /\ DOMAIN allocation \subseteq SeqToSet(styles)
  /\ pc \in {"greedy", "fill"} => available_operators = SliceOf(i)

\* Table1, styles [A, B], five operators who have all worked on B's HEM
\* only: A's slice [1..4] keeps an unused operator who has done B's HEM more
\* often than operator 5, and B's HEM holds operator 5 alone
C19_Witness ==
  /\ pc = "returned"
  /\ df = Table1
  /\ styles = <<"A", "B">>
  /\ Len(pool) = 5
  /\ allocation["B"] = <<Entry("HEM", <<5>>)>>
  /\ Staffed(allocation, "A") # {}
  /\ \E em \in SeqToSet(SliceOf(1)) \ Listed :
       \E r \in categorized_df :
         /\ r.em = em /\ r.st = "B" /\ r.pc = "HEM"
         /\ r.freq > FrequencySheet[5]

\* C20: an operator without any row in the statistics table is never in a
\* list of the plan nor in the AssignedSet
C20_NoRecordNeverPlaced ==
  /\ \A em \in Listed : \E r \in categorized_df : r.em = em
  /\ \A em \in assigned_operators : \E r \in categorized_df : r.em = em

\* a returned plan with an empty operation in a style whose slice holds an
\* operator without any row, who is in no list and not in the AssignedSet
C20_Witness ==
  /\ pc = "returned"
  /\ \E s \in 1..Len(styles) :
       /\ \E e \in 1..Len(allocation[styles[s]]) :
            allocation[styles[s]][e].staff = <<>>
       /\ Staffed(allocation, styles[s]) # {}
       /\ \E em \in SeqToSet(SliceOf(s)) :
            /\ \A r \in categorized_df : r.em # em
            /\ em \notin Listed
            /\ em \notin assigned_operators

====
